---- MODULE Spec2Model ----
(***************************************************************************)
(* Model of tools/terrain/blend_dtm.py: the DEM -> terrain pipeline run by *)
(* main(), and the helper calls add_displace_modifier,                     *)
(* add_decimate_modifier and add_hillshade.                                *)
(*                                                                         *)
(* Text is a sequence of one-character strings.  A float is a rational     *)
(* [n |-> numerator, d |-> denominator], d > 0, compared by cross          *)
(* multiplication.  The Blender host (bpy) is modelled by the state its    *)
(* calls are made on: collections grow at the end, operators are logged    *)
(* in ops in call order.                                                   *)
(***************************************************************************)
EXTENDS Integers, Sequences, FiniteSets, TLC

\* ------------------------------------------------------------------ bounds
MaxDim == 2
MaxArgv == 3
MaxTuple == 7
MaxCalls == 3

\* ------------------------------------------------------------- rationals
Rat(n, d) == [n |-> n, d |-> d]

IntAbs(i) == IF i < 0 THEN -i ELSE i

RatAbs(a) == Rat(IntAbs(a.n), a.d)

RatEq(a, b) == a.n * b.d = b.n * a.d

RatLt(a, b) == a.n * b.d < b.n * a.d

\* Python max(a, b): the first argument unless the second is greater.
PyMax(a, b) == IF RatLt(a, b) THEN b ELSE a

\* ------------------------------------------------------------------ text
Digits == {"0", "1", "2", "3", "4", "5", "6", "7", "8", "9"}

DigitVal(c) ==
    CASE c = "0" -> 0 [] c = "1" -> 1 [] c = "2" -> 2 [] c = "3" -> 3
      [] c = "4" -> 4 [] c = "5" -> 5 [] c = "6" -> 6 [] c = "7" -> 7
      [] c = "8" -> 8 [] c = "9" -> 9

RECURSIVE Strip(_)
\* str.strip() as float() applies it: leading and trailing blanks dropped.
Strip(s) ==
    IF s = <<>> THEN s
    ELSE IF Head(s) = " " THEN Strip(Tail(s))
    ELSE IF s[Len(s)] = " " THEN Strip(SubSeq(s, 1, Len(s) - 1))
    ELSE s

RECURSIVE DigitsValue(_)
\* Value of a run of decimal digits, most significant first.
DigitsValue(s) ==
    IF s = <<>> THEN 0
    ELSE 10 * DigitsValue(SubSeq(s, 1, Len(s) - 1)) + DigitVal(s[Len(s)])

RECURSIVE Pow10(_)
Pow10(k) == IF k = 0 THEN 1 ELSE 10 * Pow10(k - 1)

\* float(text) on decimal literals: blanks stripped, optional sign, digits
\* with at most one '.', at least one digit.  Anything else built from the
\* characters used here raises ValueError (ok = FALSE).
ParseFloat(text) ==
    LET s    == Strip(text)
        neg  == s # <<>> /\ Head(s) = "-"
        body == IF s # <<>> /\ Head(s) \in {"-", "+"} THEN Tail(s) ELSE s
        dots == {i \in 1..Len(body) : body[i] = "."}
        ok   == /\ body # <<>>
                /\ \A i \in 1..Len(body) : body[i] \in Digits \cup {"."}
                /\ Cardinality(dots) <= 1
                /\ Len(body) > Cardinality(dots)
        dot  == IF dots = {} THEN Len(body) + 1 ELSE CHOOSE i \in dots : TRUE
        ds   == SubSeq(body, 1, dot - 1) \o SubSeq(body, dot + 1, Len(body))
        frac == IF dots = {} THEN 0 ELSE Len(body) - dot
        v    == DigitsValue(ds)
    IN  IF ok THEN [ok |-> TRUE, v |-> Rat(IF neg THEN -v ELSE v, Pow10(frac))]
        ELSE [ok |-> FALSE, v |-> Rat(0, 1)]

RECURSIVE Split(_)
\* str.split(', '): cut at every ", ", left to right; always >= 1 piece.
Split(s) ==
    LET hits == {i \in 1..(Len(s) - 1) : s[i] = "," /\ s[i + 1] = " "}
    IN  IF hits = {} THEN <<s>>
        ELSE LET i == CHOOSE j \in hits : \A k \in hits : j <= k
             IN  <<SubSeq(s, 1, i - 1)>> \o Split(SubSeq(s, i + 2, Len(s)))

\* geot[1:-1]
Slice1m1(s) == SubSeq(s, 2, Len(s) - 1)


\* --------------------------------------------------- metadata query text
Str_0 == <<"0", ".", "0">>

CoefTexts == { <<"2", ".", "0">>, <<"-", "1", ".", "0">>, <<"0", ".", "5">> }

RECURSIVE Join(_)
\* ', '.join(items)
Join(items) ==
    IF items = <<>> THEN <<>>
    ELSE IF Len(items) = 1 THEN items[1]
    ELSE items[1] \o <<",", " ">> \o Join(Tail(items))

TupleText(items) == <<"(">> \o Join(items) \o <<")">>

\* A tuple of k numbers; pixel width (index 1) and pixel height (index 5)
\* vary, the other coefficients are 0.0.
Coefs(k, pw, ph) ==
    [i \in 1..k |-> IF i = 2 THEN pw ELSE IF i = 6 THEN ph ELSE Str_0]

ErrorTexts ==
    { <<>>,
      <<"E", "R", "R", "O", "R", " ", "4">>,
      <<"(", "n", "o", "d", "a", "t", "a", ")">>,
      <<"N", "o", "n", "e">> }

\* What the external query may print: a tuple of 0..MaxTuple numbers, no
\* output at all, or error text.
QueryOutputs ==
    { TupleText(Coefs(k, pw, ph)) : k \in 0..MaxTuple, pw \in CoefTexts, ph \in CoefTexts }
        \cup ErrorTexts

\* ------------------------------------------------------------ geotransform
DefaultTransform == <<Rat(0, 1), Rat(1, 1), Rat(0, 1), Rat(0, 1), Rat(0, 1), Rat(1, 1)>>

\* geotransform(filepath), given the text ext_exec returned.
geotransform(out) ==
    LET pieces == Split(Slice1m1(out))
        parsed == [i \in 1..Len(pieces) |-> ParseFloat(pieces[i])]
    IN  IF out = <<>>
        THEN [value |-> DefaultTransform, warning |-> FALSE]
        ELSE IF \A i \in 1..Len(pieces) : parsed[i].ok
        THEN [value |-> [i \in 1..Len(pieces) |-> parsed[i].v], warning |-> FALSE]
        ELSE [value |-> DefaultTransform, warning |-> TRUE]


\* ------------------------------------------------------------------ state
VARIABLES
    pc,          \* position in main(), or "lib" when helpers are called directly
    argv,        \* main's argument vector
    args,        \* the arguments after '--'
    result,      \* "none" | "return 0" | "return 1" | the exception raised
    printed,     \* messages written to stdout / stderr, in order
    images,      \* bpy.data.images
    image_dem,   \* index of the DEM image in images (0: not opened)
    image_img,   \* index of the colour image in images (0: not opened)
    query_out,   \* text the external GetGeoTransform query printed
    geot,        \* what geotransform() returned
    xsize,
    ysize,
    ops,         \* bpy.ops calls and ext_exec subprocess calls, in call order
    scene,       \* scene settings written by setup()
    ground,      \* the terrain object
    modifiers,   \* the object's modifier stack
    baked,       \* modifiers applied to the mesh (modifier_apply), in order
    material,    \* the object's material
    textures,    \* bpy.data.textures
    saved,       \* path of the .blend file written ("" : none)
    hill_files,  \* DEM paths whose '<dem>.hillshade.png' exists on disk
    tool_calls,  \* per DEM path: gdaldem invocations so far
    tool_fails,  \* per DEM path: gdaldem invocations that wrote no file
    calls        \* helper calls made so far in "lib" mode

vars == <<pc, argv, args, result, printed, images, image_dem, image_img,
          query_out, geot, xsize, ysize, ops, scene, ground, modifiers, baked,
          material, textures, saved, hill_files, tool_calls, tool_fails, calls>>

ArgTokens == {"--", "dem.tif", "img.tif"}

RECURSIVE SeqsUpTo(_, _)
SeqsUpTo(S, k) ==
    IF k = 0 THEN {<<>>}
    ELSE LET shorter == SeqsUpTo(S, k - 1)
         IN  shorter \cup {Append(q, x) : q \in {r \in shorter : Len(r) = k - 1}, x \in S}

Argvs == SeqsUpTo(ArgTokens, MaxArgv)

Sizes == ((0..MaxDim) \X (0..MaxDim)) \cup {<<200, 100>>}

\* Sizes the colour raster may have next to a DEM of size dem.
ImgSizes(dem) == {dem, <<150, 80>>}

DemPaths == {"dem.tif", "img.tif"}

NoObject == [exists |-> FALSE, name |-> "", scale |-> <<>>, number_cuts |-> Rat(0, 1),
             subdivided |-> FALSE]

NoMaterial == [exists |-> FALSE, name |-> "", specular_intensity |-> 1,
               slots |-> <<>>, use_off |-> {}, normal_slots |-> {},
               active_texture_index |-> 0]

NoScene == [engine |-> "BLENDER_RENDER", material_mode |-> "MULTITEXTURE",
            unit_system |-> "NONE", frame_type |-> "LETTERBOX",
            viewport_shade |-> "SOLID", clip_end |-> 1000,
            horizon_color |-> <<5, 5, 5>>, show_framerate_profile |-> FALSE]

\* ------------------------------------------------------- helper functions
\* new_material(): bpy.ops.material.new(), then the last material.
new_material == [exists |-> TRUE, name |-> "Material", specular_intensity |-> 1,
                 slots |-> <<>>, use_off |-> {}, normal_slots |-> {},
                 active_texture_index |-> 0]

\* open_image(filepath): bpy.ops.image.open, then the last image.
open_image(imgs, filepath, size) ==
    Append(imgs, [filepath |-> filepath, size |-> size, colorspace |-> "sRGB"])

\* material.texture_slots with slot i bound to texture t.
SetSlot(slots, i, t) ==
    [j \in (DOMAIN slots) \cup {i} |-> IF j = i THEN t ELSE slots[j]]

\* material.use_textures[i]
UseTextures(mat, i) == i \notin mat.use_off

\* new_image_texture(material, image, name): a new texture becomes the
\* material's active texture (the slot at active_texture_index) and is then
\* named, typed and bound to the image through material.active_texture.
new_image_texture(mat, texs, image, name) ==
    LET t    == Len(texs) + 1
        mat1 == [mat EXCEPT !.slots = SetSlot(mat.slots, mat.active_texture_index, t)]
        act  == mat1.slots[mat1.active_texture_index]
        tex1 == Append(texs, [name |-> "Texture", type |-> "NONE", image |-> 0,
                              use_normal_map |-> FALSE])
        tex2 == [tex1 EXCEPT ![act].name = name, ![act].type = "IMAGE",
                             ![act].image = image]
    IN  [material |-> mat1, textures |-> tex2, texture |-> act]

\* new_plane(name, scale)
new_plane(name, scale) ==
    [exists |-> TRUE, name |-> name, scale |-> scale, number_cuts |-> Rat(0, 1),
     subdivided |-> FALSE]

\* subdivide(obj, number_cuts): the value is handed to mesh.subdivide as is.
subdivide(obj, number_cuts) ==
    [obj EXCEPT !.number_cuts = number_cuts, !.subdivided = TRUE]

\* set_viewport(viewport_shade, clip_end)
set_viewport(sc, viewport_shade, clip_end) ==
    [sc EXCEPT !.viewport_shade = viewport_shade, !.clip_end = clip_end]

\* setup(): the scene settings it writes.
setup(sc) ==
    [set_viewport(sc, "TEXTURED", 10000) EXCEPT
        !.engine = "BLENDER_GAME", !.material_mode = "GLSL",
        !.unit_system = "METRIC", !.frame_type = "EXTEND",
        !.horizon_color = <<5, 22, 40>>, !.show_framerate_profile = TRUE]

\* save(filepath): the path written; the current file when none is given.
save(filepath, current) == IF filepath = "" THEN current ELSE filepath

\* Mutant of XSize: abs() dropped.
XSize_signed(size, g) == Rat(size[1] * g[2].n, g[2].d * 2)

\* xsize = image_dem.size[0] * abs(geot[1]) / 2
XSize(size, g) == Rat(size[1] * RatAbs(g[2]).n, g[2].d * 2)

\* Mutant of YSize: size[0] read in place of size[1].
YSize_width(size, g) == Rat(size[1] * RatAbs(g[6]).n, g[6].d * 2)

\* ysize = image_dem.size[1] * abs(geot[5]) / 2
YSize(size, g) == Rat(size[2] * RatAbs(g[6]).n, g[6].d * 2)

Modifier(type, texture, strength, direction, ratio, show_viewport) ==
    [type |-> type, texture |-> texture, strength |-> strength,
     direction |-> direction, ratio |-> ratio, show_viewport |-> show_viewport]

\* add_displace_modifier(obj, texture, strength, direction, apply): the
\* modifier is added at the end of the stack; modifier_apply moves it from
\* the stack into the mesh.
add_displace_modifier(stack, done, texture, strength, direction, apply) ==
    LET m == Modifier("DISPLACE", texture, strength, direction, Rat(0, 1), TRUE)
    IN  IF apply
        THEN [stack |-> stack, baked |-> Append(done, m),
              ops |-> <<"object.select_all", "object.modifier_add DISPLACE", "object.modifier_apply">>]
        ELSE [stack |-> Append(stack, m), baked |-> done,
              ops |-> <<"object.select_all", "object.modifier_add DISPLACE">>]

\* add_decimate_modifier(obj, ratio, apply, show_viewport)
add_decimate_modifier(stack, done, ratio, apply, show_viewport) ==
    LET m == Modifier("DECIMATE", 0, 0, "", ratio, show_viewport)
    IN  IF apply
        THEN [stack |-> stack, baked |-> Append(done, m),
              ops |-> <<"object.select_all", "object.modifier_add DECIMATE", "object.modifier_apply">>]
        ELSE [stack |-> Append(stack, m), baked |-> done,
              ops |-> <<"object.select_all", "object.modifier_add DECIMATE">>]


\* Mutant of NeedsTool: the existence check is dropped.
NeedsTool_always(files, demfile) == TRUE

\* if not os.path.isfile(hillshade_png): run gdaldem
NeedsTool(files, demfile) == demfile \notin files

\* add_hillshade(demfile, material).  wrote: whether gdaldem, if run, leaves
\* the png on disk.  Opening a png that does not exist makes image.open
\* raise, and the call ends there.
add_hillshade(files, wrote, mat, texs, imgs, demfile) ==
    LET invoked == NeedsTool(files, demfile)
        files1  == IF invoked /\ wrote THEN files \cup {demfile} ELSE files
        imgs1   == open_image(imgs, <<demfile, ".hillshade.png">>, <<1, 1>>)
        m1      == [mat EXCEPT !.active_texture_index = @ + 1]
        r       == new_image_texture(m1, texs, Len(imgs1), "hsh")
        tex1    == [r.textures EXCEPT ![r.texture].use_normal_map = TRUE]
        m2      == [r.material EXCEPT
                      !.normal_slots = @ \cup {r.material.active_texture_index}]
    IN  IF demfile \in files1
        THEN [invoked |-> invoked, files |-> files1, raised |-> FALSE,
              material |-> m2, textures |-> tex1, images |-> imgs1]
        ELSE [invoked |-> invoked, files |-> files1, raised |-> TRUE,
              material |-> mat, textures |-> texs, images |-> imgs]

\* ------------------------------------------------------------------ main
\* argv.index('--'): position of the first separator (0: none).
SepIndex(av) ==
    IF \E i \in 1..Len(av) : av[i] = "--"
    THEN CHOOSE i \in 1..Len(av) : av[i] = "--" /\ \A j \in 1..(i - 1) : av[j] # "--"
    ELSE 0

\* args = argv[argv.index('--')+1:] when '--' is in argv, else []
ParseArgs(av) ==
    IF SepIndex(av) = 0 THEN <<>> ELSE SubSeq(av, SepIndex(av) + 1, Len(av))

\* Mutant of TooFewArgs: <= in place of <.
TooFewArgs_le(a) == Len(a) <= 2

\* if len(args) < 2: usage(); return 1
TooFewArgs(a) == Len(a) < 2

Unchanged_host == UNCHANGED <<hill_files, tool_calls, tool_fails, calls>>

\* main, lines 146-152
Main_parse ==
    /\ pc = "start"
    /\ args' = ParseArgs(argv)
    /\ IF TooFewArgs(args')
       THEN /\ printed' = Append(printed, "usage")
            /\ result' = "return 1"
            /\ pc' = "done"
       ELSE /\ UNCHANGED <<printed, result>>
            /\ pc' = "open"
    /\ UNCHANGED <<argv, images, image_dem, image_img, query_out, geot, xsize, ysize,
                   ops, scene, ground, modifiers, baked, material, textures, saved>>
    /\ Unchanged_host

\* main, lines 154-157
Main_open ==
    /\ pc = "open"
    /\ \E dem \in Sizes : \E img \in ImgSizes(dem) :
         LET i1 == open_image(images, args[1], dem)
             i2 == open_image(i1, args[2], img)
         IN  /\ images' = i2
             /\ image_dem' = Len(i1)
             /\ image_img' = Len(i2)
             /\ printed' = IF i2[Len(i1)].size # i2[Len(i2)].size
                           THEN Append(printed, "[WARN] size") ELSE printed
    /\ ops' = ops \o <<"image.open", "image.open">>
    /\ pc' = "geot"
    /\ UNCHANGED <<argv, args, result, query_out, geot, xsize, ysize, scene, ground,
                   modifiers, baked, material, textures, saved>>
    /\ Unchanged_host

\* main, lines 159-162: fix_python_path, geotransform, the two extents.
\* geot[1] and geot[5] raise IndexError on a list that is too short.
Main_geot ==
    /\ pc = "geot"
    /\ \E out \in QueryOutputs :
         LET r == geotransform(out)
             g == r.value
         IN  /\ query_out' = out
             /\ geot' = g
             /\ printed' = IF r.warning THEN Append(printed, "[WARNING] GDAL")
                           ELSE IF out # <<>> THEN Append(printed, "[DEBUG] GetGeoTransform")
                           ELSE printed
             /\ IF Len(g) < 6
                THEN /\ result' = "IndexError"
                     /\ pc' = "done"
                     /\ UNCHANGED <<xsize, ysize>>
                ELSE /\ xsize' = XSize(images[image_dem].size, g)
                     /\ ysize' = YSize(images[image_dem].size, g)
                     /\ pc' = "setup"
                     /\ UNCHANGED result
    /\ ops' = ops \o <<"ext_exec", "ext_exec">>
    /\ UNCHANGED <<argv, args, images, image_dem, image_img, scene, ground,
                   modifiers, baked, material, textures, saved>>
    /\ Unchanged_host

\* main, line 164
Main_setup ==
    /\ pc = "setup"
    /\ scene' = setup(scene)
    /\ ops' = ops \o <<"object.select_all", "object.delete", "object.lamp_add">>
    /\ pc' = "plane"
    /\ UNCHANGED <<argv, args, result, printed, images, image_dem, image_img, query_out,
                   geot, xsize, ysize, ground, modifiers, baked, material, textures, saved>>
    /\ Unchanged_host

\* The cut count main hands to subdivide: max(xsize, ysize)
NumberCuts(xs, ys) == PyMax(xs, ys)

\* main, lines 168-169
Main_plane ==
    /\ pc = "plane"
    /\ ground' = subdivide(new_plane("Ground", <<xsize, ysize, Rat(1, 1)>>),
                           NumberCuts(xsize, ysize))
    /\ ops' = ops \o <<"object.select_all", "mesh.primitive_plane_add",
                       "object.select_all", "object.mode_set", "mesh.subdivide",
                       "object.mode_set">>
    /\ pc' = "material"
    /\ UNCHANGED <<argv, args, result, printed, images, image_dem, image_img, query_out,
                   geot, xsize, ysize, scene, modifiers, baked, material, textures, saved>>
    /\ Unchanged_host

\* Mutant of ComposeMaterial: active_texture_index is not advanced.
ComposeMaterial_sameslot(texs, dem, img) ==
    LET m0 == [new_material EXCEPT !.specular_intensity = 0, !.name = "Ground"]
        r1 == new_image_texture(m0, texs, dem, "dem")
        m1 == [r1.material EXCEPT !.use_off = @ \cup {r1.material.active_texture_index}]
        r2 == new_image_texture(m1, r1.textures, img, "img")
    IN  [material |-> r2.material, textures |-> r2.textures,
         texture_dem |-> r1.texture, texture_img |-> r2.texture]

\* main, lines 173-186: the material and its two texture layers.
ComposeMaterial(texs, dem, img) ==
    LET m0 == [new_material EXCEPT !.specular_intensity = 0, !.name = "Ground"]
        r1 == new_image_texture(m0, texs, dem, "dem")
        m1 == [r1.material EXCEPT !.use_off = @ \cup {r1.material.active_texture_index}]
        m2 == [m1 EXCEPT !.active_texture_index = @ + 1]
        r2 == new_image_texture(m2, r1.textures, img, "img")
    IN  [material |-> r2.material, textures |-> r2.textures,
         texture_dem |-> r1.texture, texture_img |-> r2.texture]

Main_material ==
    /\ pc = "material"
    /\ LET r == ComposeMaterial(textures, image_dem, image_img)
       IN  /\ material' = r.material
           /\ textures' = r.textures
    /\ images' = [images EXCEPT ![image_dem].colorspace = "Linear"]
    /\ ops' = ops \o <<"material.new", "texture.new", "texture.new">>
    /\ pc' = "displace"
    /\ UNCHANGED <<argv, args, result, printed, image_dem, image_img, query_out,
                   geot, xsize, ysize, scene, ground, modifiers, baked, saved>>
    /\ Unchanged_host

\* Mutant of MainDisplace: the modifier is applied at once.
MainDisplace_baked(stack, done, texture_dem) ==
    add_displace_modifier(stack, done, texture_dem, 1, "Z", TRUE)

\* main, line 190: add_displace_modifier(ground, texture_dem)
MainDisplace(stack, done, texture_dem) ==
    add_displace_modifier(stack, done, texture_dem, 1, "Z", FALSE)

Main_displace ==
    /\ pc = "displace"
    /\ LET r == MainDisplace(modifiers, baked, material.slots[0])
       IN  /\ modifiers' = r.stack
           /\ baked' = r.baked
           /\ ops' = ops \o r.ops
    /\ pc' = "pack"
    /\ UNCHANGED <<argv, args, result, printed, images, image_dem, image_img, query_out,
                   geot, xsize, ysize, scene, ground, material, textures, saved>>
    /\ Unchanged_host

\* main, line 194
Main_pack ==
    /\ pc = "pack"
    /\ ops' = Append(ops, "file.pack_all")
    /\ pc' = "save"
    /\ UNCHANGED <<argv, args, result, printed, images, image_dem, image_img, query_out,
                   geot, xsize, ysize, scene, ground, modifiers, baked, material,
                   textures, saved>>
    /\ Unchanged_host

\* main, lines 195-197: the host writes the file or its operator raises.
Main_save ==
    /\ pc = "save"
    /\ ops' = Append(ops, "wm.save_mainfile")
    /\ \E written \in BOOLEAN :
         IF written
         THEN /\ saved' = save("/tmp/dtm.blend", "")
              /\ result' = "return 0"
         ELSE /\ saved' = saved
              /\ result' = "RuntimeError"
    /\ pc' = "done"
    /\ UNCHANGED <<argv, args, printed, images, image_dem, image_img, query_out,
                   geot, xsize, ysize, scene, ground, modifiers, baked, material,
                   textures>>
    /\ Unchanged_host

Init ==
    /\ pc = "start"
    /\ argv \in Argvs
    /\ args = <<>>
    /\ result = "none"
    /\ printed = <<>>
    /\ images = <<>>
    /\ image_dem = 0
    /\ image_img = 0
    /\ query_out = <<>>
    /\ geot = <<>>
    /\ xsize = Rat(0, 1)
    /\ ysize = Rat(0, 1)
    /\ ops = <<>>
    /\ scene = NoScene
    /\ ground = NoObject
    /\ modifiers = <<>>
    /\ baked = <<>>
    /\ material = NoMaterial
    /\ textures = <<>>
    /\ saved = ""
    /\ hill_files = {}
    /\ tool_calls = [p \in DemPaths |-> 0]
    /\ tool_fails = [p \in DemPaths |-> 0]
    /\ calls = 0

Next ==
    \/ Main_parse
    \/ Main_open
    \/ Main_geot
    \/ Main_setup
    \/ Main_plane
    \/ Main_material
    \/ Main_displace
    \/ Main_pack
    \/ Main_save

Spec == Init /\ [][Next]_vars


\* ------------------------------------------- helpers called on an object
Strengths == {1, 2}

Directions == {"Z", "NORMAL"}

Ratios == {Rat(1, 2)}

Unchanged_main ==
    UNCHANGED <<pc, argv, args, printed, image_dem, image_img, query_out, geot,
                xsize, ysize, scene, ground, saved>>

Lib_displace ==
    /\ pc = "lib"
    /\ calls < MaxCalls
    /\ \E strength \in Strengths, direction \in Directions, apply \in BOOLEAN :
         LET r == add_displace_modifier(modifiers, baked, material.slots[0],
                                        strength, direction, apply)
         IN  /\ modifiers' = r.stack
             /\ baked' = r.baked
             /\ ops' = ops \o r.ops
    /\ calls' = calls + 1
    /\ result' = "returned"
    /\ Unchanged_main
    /\ UNCHANGED <<images, material, textures, hill_files, tool_calls, tool_fails>>

Lib_decimate ==
    /\ pc = "lib"
    /\ calls < MaxCalls
    /\ \E ratio \in Ratios, apply \in BOOLEAN, show_viewport \in BOOLEAN :
         LET r == add_decimate_modifier(modifiers, baked, ratio, apply, show_viewport)
         IN  /\ modifiers' = r.stack
             /\ baked' = r.baked
             /\ ops' = ops \o r.ops
    /\ calls' = calls + 1
    /\ result' = "returned"
    /\ Unchanged_main
    /\ UNCHANGED <<images, material, textures, hill_files, tool_calls, tool_fails>>

Lib_hillshade ==
    /\ pc = "lib"
    /\ calls < MaxCalls
    /\ \E demfile \in DemPaths, wrote \in BOOLEAN :
         LET r == add_hillshade(hill_files, wrote, material, textures, images, demfile)
         IN  /\ hill_files' = r.files
             /\ tool_calls' = IF r.invoked
                              THEN [tool_calls EXCEPT ![demfile] = @ + 1] ELSE tool_calls
             /\ tool_fails' = IF r.invoked /\ demfile \notin r.files
                              THEN [tool_fails EXCEPT ![demfile] = @ + 1] ELSE tool_fails
             /\ material' = r.material
             /\ textures' = r.textures
             /\ images' = r.images
             /\ result' = IF r.raised THEN "RuntimeError" ELSE "returned"
             /\ ops' = ops \o (IF r.raised THEN <<"image.open">>
                               ELSE <<"image.open", "texture.new">>)
    /\ calls' = calls + 1
    /\ Unchanged_main
    /\ UNCHANGED <<modifiers, baked>>

\* An object with a material that carries the 'dem' texture in slot 0, on
\* which the helpers are then called in any order.
LibInit ==
    LET imgs == open_image(<<>>, "dem.tif", <<1, 1>>)
        r    == new_image_texture(new_material, <<>>, 1, "dem")
    IN  /\ pc = "lib"
        /\ argv = <<>>
        /\ args = <<>>
        /\ result = "none"
        /\ printed = <<>>
        /\ images = imgs
        /\ image_dem = 1
        /\ image_img = 0
        /\ query_out = <<>>
        /\ geot = <<>>
        /\ xsize = Rat(1, 1)
        /\ ysize = Rat(1, 1)
        /\ ops = <<>>
        /\ scene = NoScene
        /\ ground = new_plane("Plane", <<Rat(1, 1), Rat(1, 1), Rat(1, 1)>>)
        /\ modifiers = <<>>
        /\ baked = <<>>
        /\ material = r.material
        /\ textures = r.textures
        /\ saved = ""
        /\ hill_files \in SUBSET DemPaths
        /\ tool_calls = [p \in DemPaths |-> 0]
        /\ tool_fails = [p \in DemPaths |-> 0]
        /\ calls = 0

LibNext ==
    \/ Lib_displace
    \/ Lib_decimate
    \/ Lib_hillshade

SpecLib == LibInit /\ [][LibNext]_vars


\* ----------------------------------------------------------------- claims
\* The metadata text is a parenthesised tuple of exactly six floats.
WellFormed6(out) ==
    /\ Len(out) >= 2
    /\ out[1] = "("
    /\ out[Len(out)] = ")"
    /\ LET pieces == Split(Slice1m1(out))
       IN  /\ Len(pieces) = 6
           /\ \A i \in 1..6 : ParseFloat(pieces[i]).ok

\* main has got a transform back from geotransform().
Resolved == geot # <<>>

\* main has computed xsize and ysize.
Computed ==
    \/ pc \in {"setup", "plane", "material", "displace", "pack", "save"}
    \/ pc = "done" /\ result \in {"return 0", "RuntimeError"}

DemSize == images[image_dem].size

\* C1: geotransform returns the identity transform (0,1,0,0,0,1) for every
\* query output that is not a well-formed 6-tuple of floats (empty output,
\* error text, non-numeric text, a tuple of fewer or more than six numbers).
C1_IdentityOnMalformed ==
    (Resolved /\ ~WellFormed6(query_out)) => geot = DefaultTransform

\* C2: main returns 1, after writing the usage message, exactly when fewer
\* than two arguments follow the first '--' (none when '--' is absent);
\* it returns 0 when at least two follow and nothing raises; it returns
\* nothing else, and nothing before it is done.
C2_ReturnCodes ==
    LET seps   == {i \in 1..Len(argv) : argv[i] = "--"}
        first  == CHOOSE i \in seps : \A j \in seps : i <= j
        after  == IF seps = {} THEN 0 ELSE Len(argv) - first
        raised == result \in {"IndexError", "RuntimeError"}
    IN  /\ pc # "done" => result = "none"
        /\ pc = "done" =>
             /\ result \in {"return 0", "return 1", "IndexError", "RuntimeError"}
             /\ (after < 2) <=> (result = "return 1")
             /\ (result = "return 1") <=> (printed = <<"usage">>)
             /\ (after >= 2 /\ ~raised) => result = "return 0"

C2_Witness == pc = "done" /\ result = "return 1" /\ Len(args) = 1

\* C3: the extent is (DEM.width * |pixelWidth| / 2, DEM.height *
\* |pixelHeight| / 2): a function of the DEM size and the transform alone,
\* unchanged when the signs of pixelWidth and pixelHeight are flipped, with
\* both components non-negative; width 200, pixelWidth 2.0, height 100,
\* pixelHeight -1.0 gives (200, 50).
C3_Extent ==
    Computed =>
      LET w  == DemSize[1]
          h  == DemSize[2]
          pw == geot[2]
          ph == geot[6]
          flipped == [geot EXCEPT ![2] = Rat(-pw.n, pw.d), ![6] = Rat(-ph.n, ph.d)]
      IN  /\ RatEq(xsize, Rat(w * IntAbs(pw.n), 2 * pw.d))
          /\ RatEq(ysize, Rat(h * IntAbs(ph.n), 2 * ph.d))
          /\ RatEq(xsize, XSize(DemSize, flipped))
          /\ RatEq(ysize, YSize(DemSize, flipped))
          /\ xsize.d > 0 /\ xsize.n >= 0
          /\ ysize.d > 0 /\ ysize.n >= 0
          /\ (w = 200 /\ h = 100 /\ RatEq(pw, Rat(2, 1)) /\ RatEq(ph, Rat(-1, 1)))
               => (RatEq(xsize, Rat(200, 1)) /\ RatEq(ysize, Rat(50, 1)))

C3_Witness ==
    /\ Computed
    /\ DemSize = <<200, 100>>
    /\ images[image_img].size = <<150, 80>>
    /\ RatEq(geot[2], Rat(2, 1))
    /\ RatEq(geot[6], Rat(-1, 1))
    /\ RatEq(xsize, Rat(200, 1))

\* C4 as stated: whenever the DEM has width 0 or height 0, both components
\* of the extent are zero.
C4_ZeroDimZeroExtent ==
    (Computed /\ (DemSize[1] = 0 \/ DemSize[2] = 0)) => (xsize.n = 0 /\ ysize.n = 0)

\* C4 amended: width 0 makes xsize zero and height 0 makes ysize zero; the
\* other component keeps its own value, which is positive when its
\* dimension and pixel size are non-zero; the extent is (0,0) when both
\* dimensions are 0.
C4_ZeroDimZeroComponent ==
    Computed =>
      /\ DemSize[1] = 0 => xsize.n = 0
      /\ DemSize[2] = 0 => ysize.n = 0
      /\ (DemSize[1] > 0 /\ geot[2].n # 0) => xsize.n > 0
      /\ (DemSize[2] > 0 /\ geot[6].n # 0) => ysize.n > 0

C4_Witness ==
    Computed /\ DemSize[1] = 0 /\ DemSize[2] > 0 /\ xsize.n = 0 /\ ysize.n > 0

\* The value is a whole number.
RatIsInt(a) == a.n % a.d = 0

\* round() as the claim reads it: nearest integer, ties to the even one
\* (a >= 0 here).
PyRound(a) ==
    LET q == a.n \div a.d
        r == a.n % a.d
    IN  IF 2 * r < a.d THEN q
        ELSE IF 2 * r > a.d THEN q + 1
        ELSE IF q % 2 = 0 THEN q ELSE q + 1

\* C5: the cut count handed to the tessellation is round(max(xsize, ysize))
\* as an integer, and never less than 1, for every extent.
C5_CutCount ==
    ground.subdivided =>
      LET nc   == ground.number_cuts
          want == PyRound(PyMax(xsize, ysize))
      IN  /\ RatIsInt(nc)
          /\ RatEq(nc, Rat(IF want < 1 THEN 1 ELSE want, 1))
          /\ ~RatLt(nc, Rat(1, 1))

\* main has composed the ground material.
Composed ==
    \/ pc \in {"displace", "pack", "save"}
    \/ pc = "done" /\ result \in {"return 0", "RuntimeError"}

\* C6: the composed material has exactly two texture layers: layer 0 is the
\* 'dem' texture on the DEM image, hidden (use_textures false) and the one
\* the Displace modifier reads; layer 1 is the 'img' texture on the colour
\* image, shown (use_textures true); layer 0 is as it was before layer 1
\* was created.
C6_MaterialLayers ==
    Composed =>
      /\ DOMAIN material.slots = {0, 1}
      /\ material.slots[0] # material.slots[1]
      /\ textures[material.slots[0]].name = "dem"
      /\ textures[material.slots[0]].type = "IMAGE"
      /\ textures[material.slots[0]].image = image_dem
      /\ ~UseTextures(material, 0)
      /\ textures[material.slots[1]].name = "img"
      /\ textures[material.slots[1]].type = "IMAGE"
      /\ textures[material.slots[1]].image = image_img
      /\ UseTextures(material, 1)
      /\ \A i \in 1..Len(modifiers) :
           modifiers[i].type = "DISPLACE" => modifiers[i].texture = material.slots[0]

C6_Witness ==
    /\ pc = "pack"
    /\ Len(modifiers) = 1
    /\ modifiers[1].texture = material.slots[0]
    /\ images[image_dem].size # images[image_img].size
    /\ Len(textures) = 2

\* C7: in every modifier stack the helpers can build, each Decimate stage
\* comes strictly after a Displace stage (a Decimate requested before any
\* Displace is rejected or reordered).
C7_DecimateAfterDisplace ==
    LET all == baked \o modifiers
    IN  /\ \A i \in 1..Len(modifiers) :
             modifiers[i].type = "DECIMATE" =>
               \/ \E j \in 1..(i - 1) : modifiers[j].type = "DISPLACE"
               \/ \E j \in 1..Len(baked) : baked[j].type = "DISPLACE"
        /\ (\E i \in 1..Len(all) : all[i].type = "DECIMATE")
             => (\E i \in 1..Len(all) : all[i].type = "DISPLACE")

\* C8 as stated: over any sequence of add_hillshade calls for one DEM path
\* the external tool is invoked at most once, also after a failed run.
C8_AtMostOnce == \A p \in DemPaths : tool_calls[p] <= 1

\* C8 amended: the tool is invoked only while '<dem>.hillshade.png' does
\* not exist: at most one invocation per DEM path leaves the file, after it
\* the file exists and no later call invokes the tool; every other
\* invocation is one that left no file, and the next call invokes again.
C8_OnceFileExists ==
    \A p \in DemPaths :
      /\ tool_calls[p] <= tool_fails[p] + 1
      /\ tool_calls[p] > tool_fails[p] => p \in hill_files
      /\ (p \notin hill_files) => tool_calls[p] = tool_fails[p]

C8_Witness ==
    \E p \in DemPaths :
      /\ calls = 3
      /\ tool_calls[p] = 2
      /\ tool_fails[p] = 1
      /\ p \in hill_files
      /\ result = "returned"
      /\ Cardinality(material.normal_slots) = 2

\* C9: with two raster paths given and the file saved without error, main
\* returns 0 for every outcome of the geotransform query and of the size
\* comparison; only a usage error or a persistence failure ends it early.
C9_WarningsNeverStop ==
    (pc = "done" /\ Len(args) >= 2 /\ result # "RuntimeError") => result = "return 0"

\* Position of the first / last occurrence of a call in ops (0: none).
FirstOp(name) ==
    IF \E i \in 1..Len(ops) : ops[i] = name
    THEN CHOOSE i \in 1..Len(ops) : ops[i] = name /\ \A j \in 1..(i - 1) : ops[j] # name
    ELSE 0

LastOp(name) ==
    IF \E i \in 1..Len(ops) : ops[i] = name
    THEN CHOOSE i \in 1..Len(ops) : ops[i] = name /\ \A j \in (i + 1)..Len(ops) : ops[j] # name
    ELSE 0

CountOp(name) == Cardinality({i \in 1..Len(ops) : ops[i] = name})

====
